---- MODULE Spec2Model ----
(***************************************************************************)
(* Model of the File-Organizer-Suite.                                      *)
(*                                                                         *)
(*   Item Organizer/item_organizer.py : copy + delete organizer with a     *)
(*       source and a destination directory (specification SpecItem).      *)
(*   File Organizer/file_organize.py  : in-place organizer with dry run,   *)
(*       interactive conflict resolution and a thread pool (SpecFO).       *)
(*   The constructors and categorizers of both (SpecTables).               *)
(*                                                                         *)
(* A file name is a record [stem, suf, ext]: "a_1_2.txt" is stem "a",      *)
(* suf <<1, 2>>, ext ".txt", so that the f"{base}_{counter}{ext}" names    *)
(* the code builds are computed, not looked up.  A directory is a function *)
(* from the names (paths) that exist in it to the content stored there.    *)
(***************************************************************************)
EXTENDS Integers, Sequences, FiniteSets, TLC

\* ------------------------------------------------------------------ bounds

\* number of distinct byte contents a file of a given size can have
NumData == 2

\* number of entries of a category table read from a config file
MaxTable == 2

\* ------------------------------------------------------- program constants

\* item_organizer.get_file_info: checksum only for files larger than 1 MiB
ChecksumThreshold == 1048576

\* item_organizer.process_files(max_workers=4)
ItemMaxWorkers == 4

\* file_organize.MAX_WORKERS
MAX_WORKERS == 4

\* ------------------------------------------------------------ file names

MkName(stem, ext) == [stem |-> stem, suf |-> <<>>, ext |-> ext]

\* f"{base}_{counter}{ext}" with base, ext = os.path.splitext(name)
\* (file_organize: f"{source.stem}_{counter}{source.suffix}")
RenameCandidate(name, counter) == [name EXCEPT !.suf = Append(@, counter)]

\* str.lower() on the extensions the model uses
Lower(ext) ==
  CASE ext = ".TXT" -> ".txt"
    [] ext = ".JPG" -> ".jpg"
    [] ext = ".Mp3" -> ".mp3"
    [] OTHER -> ext

\* a mutant of Extension: the extension is not lowercased
ExtensionNotLowered(name) == name.ext

\* FileInfo.extension
Extension(name) == Lower(name.ext)

\* a hidden file (splitext and Path.suffix give it no extension) and a
\* subdirectory
HiddenName == MkName(".profile", "")

SubdirName == MkName("sub", "")

\* str.startswith('.') on the names the model uses
StartsWithDot(name) == name.stem = ".profile"

\* ---------------------------------------------------------- file contents

Sizes == {ChecksumThreshold, ChecksumThreshold + 1}

Contents == [data : 1..NumData, size : Sizes]

\* what a copy interrupted midway leaves at the destination path
Truncated == [data |-> 0, size |-> 0]

\* hashlib md5 hexdigest of a file: a function of its bytes alone
Md5(content) == <<"md5", content.data, content.size>>

\* FileInfo.checksum = None
NoChecksum == <<>>

\* ------------------------------------------------------------- utilities

\* the sequences of at most n distinct elements of S: the key/value pairs of
\* a JSON object in file order
DistinctSeqs(S, n) ==
  UNION {{q \in [1..k -> S] : \A i, j \in 1..k : q[i] = q[j] => i = j} : k \in 0..n}

\* every function from a subset of S to T: the possible contents of a directory
PartialFns(S, T) == UNION {[D -> T] : D \in SUBSET S}

\* the orders in which a directory listing can return the names in S
Orderings(S) ==
  {q \in [1..Cardinality(S) -> S] : \A i, j \in 1..Cardinality(S) : q[i] = q[j] => i = j}

\* f with path p removed
Without(f, p) == [q \in DOMAIN f \ {p} |-> f[q]]

\* f with path p created or replaced
WithFile(f, p, c) == [q \in DOMAIN f \cup {p} |-> IF q = p THEN c ELSE f[q]]

Min(S) == CHOOSE x \in S : \A y \in S : x <= y

\* ---- state of file_organize.py (its operations are modelled below)

VARIABLES
  baseFiles,        \* regular files directly in base_dir: name -> content
  folders,          \* the category folders that exist in base_dir
  subFiles,         \* files inside the folders: <<folder, name>> -> content
  phase,            \* "idle", "running" (inside organize), "returned",
                    \* "interrupted" (KeyboardInterrupt raised), "aborted"
  runs,             \* number of organize runs started (one per command line)
  dry_run,          \* organize's dry_run argument
  parallel,         \* organize's parallel argument
  files_to_process, \* organize's files_to_process list
  ftask,            \* per file: the _move_file call [pc, target_path, resolution, op]
  fidx,             \* position of organize's loop over the futures / files
  stats,            \* self.stats
  operations,       \* self.operations
  raised,           \* history: per file, _move_file caught an exception
  startFs,          \* history: <<baseFiles, folders, subFiles>> when organize began
  prevOps,          \* history: self.operations of the previous run
  prevDry,          \* history: the previous run was a dry run on this very tree
  extensions,       \* self.extensions, in dict order (<<>>: no object yet)
  exit_status,      \* exit code of the command line (-1: still running)
  queuedAtInterrupt \* history: the tasks not yet started when KeyboardInterrupt
                    \* was raised in organize

foVars == <<baseFiles, folders, subFiles, phase, runs, dry_run, parallel,
            files_to_process, ftask, fidx, stats, operations, raised, startFs,
            prevOps, prevDry, extensions, exit_status, queuedAtInterrupt>>


\* ======================================================================
\*   Item Organizer/item_organizer.py
\* ======================================================================

VARIABLES
  srcFs,          \* regular files of source_path: name -> content
  dstFs,          \* files under destination_path: <<category, name>> -> content
  listing,        \* os.listdir(source_path), in the order it was returned
  task,           \* per submitted get_file_info future: [st, tmp]
  info,           \* per future: the FileInfo it returned (some = FALSE: None)
  idx,            \* position of process_files' loop over the futures
  mpc,            \* where the main thread is inside move_file
  mtmp,           \* the main thread's loaded value of error_count during += 1
  category,       \* move_file's category argument
  dest_path,      \* move_file's dest_path local
  file_counters,  \* self.file_counters
  error_count,    \* self.error_count
  skip_count,     \* self.skip_count
  overwrite_count,\* self.overwrite_count
  result,         \* per future: how its file ended (move_file's return, observed)
  srcInit,        \* history: srcFs when process_files started
  dstInit,        \* history: dstFs when process_files started
  errEvents,      \* history: number of error events so far
  skipEvents,     \* history: number of duplicate skips so far
  moveEvents,     \* history: number of completed moves per category
  categories,     \* self.categories, in dict order (<<>>: no object yet)
  stage,          \* where main is: "main", "constructed", "validated",
                  \* "process_files", "exited"
  source_kind,    \* what source_path is: "dir", "missing", "file", or "same"
                  \* (the very directory destination_path names)
  dest_root,      \* destination_path: "exists", "absent" (can be created),
                  \* "blocked" (absent and cannot be created)
  cat_dirs,       \* the category directories that exist under destination_path
  srcDirs,        \* the subdirectories of source_path
  item_exit,      \* exit code of the command line (-1: still running)
  exitHow,        \* history: "none", "invalid" (validate_paths returned False),
                  \* "fatal" (an exception reached main), "completed"
  destRootInit,   \* history: dest_root when main started
  conflictErr     \* history: the futures whose handle_file_conflict could not
                  \* obtain the file information

\* what main's steps before and after process_files read and write
itemSetup == <<categories, stage, source_kind, dest_root, cat_dirs, srcDirs,
               item_exit, exitHow, destRootInit>>

itemVars == <<srcFs, dstFs, listing, task, info, idx, mpc, mtmp, category,
              dest_path, file_counters, error_count, skip_count,
              overwrite_count, result, srcInit, dstInit, errEvents,
              skipEvents, moveEvents, itemSetup, conflictErr>>

\* ---- state of the categorizer queries (specification SpecTables)

VARIABLES
  item_config,    \* the --config table item_organizer's FileOrganizer was built with
  fo_config,      \* the config file file_organize's FileOrganizer was built with
  query,          \* the file name last categorized
  answer          \* what the two categorizers returned for it

tableVars == <<item_config, fo_config, query, answer>>

vars == <<itemVars, foVars, tableVars>>

\* DEFAULT_CATEGORIES, in dict order
DEFAULT_CATEGORIES == <<
  [category |-> "audios",      extensions |-> {".mp3", ".ogg", ".wav", ".flac", ".aac"}],
  [category |-> "videos",      extensions |-> {".webm", ".mov", ".mp4", ".mkv", ".avi", ".flv"}],
  [category |-> "images",      extensions |-> {".jpg", ".jpeg", ".png", ".gif", ".webp", ".svg", ".bmp", ".tiff"}],
  [category |-> "documents",   extensions |-> {".txt", ".doc", ".docx", ".xlsx", ".pptx", ".pdf", ".csv", ".rtf"}],
  [category |-> "formats",     extensions |-> {".sql", ".json", ".xml", ".yaml", ".yml"}],
  [category |-> "scripts",     extensions |-> {".ps1", ".sh", ".py", ".js", ".rb", ".php", ".pl", ".bat", ".cmd"}],
  [category |-> "archives",    extensions |-> {".zip", ".rar", ".7z", ".tar", ".gz"}],
  [category |-> "executables", extensions |-> {".exe", ".msi", ".dmg", ".pkg", ".deb", ".rpm"}],
  [category |-> "general",     extensions |-> {}] >>

ItemCategoryNames == {DEFAULT_CATEGORIES[i].category : i \in 1..Len(DEFAULT_CATEGORIES)}

\* self.categories = config if config else DEFAULT_CATEGORIES
\* (no --config, and an empty table, are both falsy)
ItemCategories(config) == IF config # <<>> THEN config ELSE DEFAULT_CATEGORIES

\* a mutant of CategorizeLoop: a later matching category replaces an earlier one
CategorizeLoopLastMatch(table, ext, i) ==
  LET hits == {j \in i..Len(table) : ext \in table[j].extensions}
  IN  IF hits = {} THEN "general"
      ELSE table[CHOOSE j \in hits : \A k \in hits : k <= j].category

\* the for loop of categorize_file from the i-th entry of the table on:
\* return at the first entry whose list holds the extension, 'general' when
\* the loop ends
RECURSIVE CategorizeLoop(_, _, _)
CategorizeLoop(table, ext, i) ==
  IF i > Len(table) THEN "general"
  ELSE IF ext \in table[i].extensions THEN table[i].category
  ELSE CategorizeLoop(table, ext, i + 1)

\* FileOrganizer.categorize_file, on file_info.extension (lowercased by
\* FileInfo) and self.categories
categorize_file(name) == CategorizeLoop(categories, Extension(name), 1)

\* the value get_file_info returns when it returns None
NoFileInfo == [some |-> FALSE, name |-> MkName("", ""), path |-> MkName("", ""),
               size |-> 0, checksum |-> NoChecksum]

\* FileOrganizer.get_file_info without an I/O error: the FileInfo of the file
\* source_path/file_name, with a checksum only above the threshold
get_file_info(file_name) ==
  IF file_name \in DOMAIN srcFs
  THEN [some |-> TRUE, name |-> file_name, path |-> file_name,
        size |-> srcFs[file_name].size,
        checksum |-> IF srcFs[file_name].size > ChecksumThreshold
                     THEN Md5(srcFs[file_name]) ELSE NoChecksum]
  ELSE NoFileInfo

\* ---- the inputs of a run

ItemSrcNames == {MkName("a", ".txt"), MkName("b", ".JPG")}

ItemDstPaths == {<<"documents", MkName("a", ".txt")>>,
                 <<"documents", RenameCandidate(MkName("a", ".txt"), 1)>>}

\* source trees with a hidden file or a subdirectory next to a.txt
ItemTreeNames == {MkName("a", ".txt"), HiddenName}

ItemTreeContents == {[data |-> 1, size |-> z] : z \in Sizes}

\* the state when main starts.  source_path is a directory and
\* destination_path exists: any files in both.  destination_path does not
\* exist: nothing is under it.  source_path is missing or a file: it has no
\* entries.  source_path is destination_path: one directory, seen as source.
ItemInit ==
  /\ source_kind \in {"dir", "missing", "file", "same"}
  /\ dest_root \in {"exists", "absent", "blocked"}
  /\ source_kind = "same" => dest_root = "exists"
  /\ \/ /\ source_kind = "dir"
        /\ dest_root = "exists"
        /\ \/ /\ srcFs \in PartialFns(ItemSrcNames, Contents) \ {<<>>}
              /\ srcDirs = {}
           \/ /\ srcFs \in PartialFns(ItemTreeNames, ItemTreeContents)
              /\ srcDirs \in SUBSET {SubdirName}
              /\ HiddenName \in DOMAIN srcFs \/ srcDirs # {}
        /\ dstFs \in PartialFns(ItemDstPaths, Contents)
     \/ /\ source_kind \in {"dir", "same"}
        /\ source_kind = "dir" => dest_root # "exists"
        /\ srcFs \in PartialFns(ItemSrcNames, ItemTreeContents) \ {<<>>}
        /\ srcDirs = {}
        /\ dstFs = <<>>
     \/ /\ source_kind \in {"missing", "file"}
        /\ srcFs = <<>>
        /\ srcDirs = {}
        /\ dstFs \in IF dest_root = "exists"
                     THEN PartialFns(ItemDstPaths, ItemTreeContents)
                     ELSE {<<>>}
  /\ listing \in Orderings(DOMAIN srcFs \cup srcDirs)
  /\ task = [i \in 1..Len(listing) |-> [st |-> "queued", tmp |-> 0]]
  /\ info = [i \in 1..Len(listing) |-> NoFileInfo]
  /\ idx = 1
  /\ mpc = "await"
  /\ mtmp = 0
  /\ category = "general"
  /\ dest_path = <<"general", MkName("", "")>>
  /\ file_counters = [c \in ItemCategoryNames |-> 0]
  /\ error_count = 0
  /\ skip_count = 0
  /\ overwrite_count = 0
  /\ result = [i \in 1..Len(listing) |-> "none"]
  /\ srcInit = srcFs
  /\ dstInit = dstFs
  /\ errEvents = 0
  /\ skipEvents = 0
  /\ moveEvents = [c \in ItemCategoryNames |-> 0]
  /\ categories = <<>>
  /\ stage = "main"
  /\ cat_dirs = {p[1] : p \in DOMAIN dstFs}
  /\ item_exit = -1
  /\ exitHow = "none"
  /\ destRootInit = dest_root
  /\ conflictErr = {}

\* ---- main before process_files

\* sys.exit(code) in main, or the end of main (code 0)
ItemExit(code, how) ==
  /\ stage' = "exited"
  /\ item_exit' = code
  /\ exitHow' = how

\* FileOrganizer(args.source, args.destination, config) without --config.
\* setup_logging opens logging.FileHandler(destination_path/file_organizer.log)
\* at once: when destination_path does not exist the open raises
\* FileNotFoundError, which main's `except Exception` turns into sys.exit(1).
Item_Construct ==
  /\ stage = "main"
  /\ categories' = ItemCategories(<<>>)
  /\ file_counters' = [c \in ItemCategoryNames |-> 0]
  /\ error_count' = 0
  /\ skip_count' = 0
  /\ overwrite_count' = 0
  /\ IF dest_root = "exists"
     THEN /\ stage' = "constructed"
          /\ UNCHANGED <<item_exit, exitHow>>
     ELSE ItemExit(1, "fatal")
  /\ UNCHANGED <<foVars, tableVars, srcFs, dstFs, listing, task, info, idx, mpc,
                 mtmp, category, dest_path, result, srcInit, dstInit,
                 errEvents, skipEvents, moveEvents, source_kind, dest_root,
                 cat_dirs, srcDirs, destRootInit, conflictErr>>

\* validate_paths and main's `if not organizer.validate_paths(): sys.exit(1)`.
\* DirectoryManager.create returns False on a failure and validate_paths does
\* not look at what it returns; os.path.samefile then raises when
\* destination_path still does not exist, and the exception reaches main.
Item_ValidatePaths ==
  /\ stage = "constructed"
  /\ IF source_kind \in {"missing", "file"}
     THEN /\ ItemExit(1, "invalid")
          /\ dest_root' = dest_root
     ELSE /\ dest_root' = IF dest_root = "absent" THEN "exists" ELSE dest_root
          /\ IF dest_root = "blocked" THEN ItemExit(1, "fatal")
             ELSE IF source_kind = "same" THEN ItemExit(1, "invalid")
             ELSE /\ stage' = "validated"
                  /\ UNCHANGED <<item_exit, exitHow>>
  /\ UNCHANGED <<foVars, tableVars, srcFs, dstFs, listing, task, info, idx, mpc,
                 mtmp, category, dest_path, file_counters, error_count,
                 skip_count, overwrite_count, result, srcInit, dstInit,
                 errEvents, skipEvents, moveEvents, categories, source_kind,
                 cat_dirs, srcDirs, destRootInit, conflictErr>>

\* prepare_destination: one DirectoryManager.create per category; when one of
\* them returns False the RuntimeError reaches main (sys.exit(1)), the other
\* directories having been created
Item_PrepareDestination ==
  /\ stage = "validated"
  /\ \E failed \in SUBSET (ItemCategoryNames \ cat_dirs) :
       /\ Cardinality(failed) <= 1
       /\ cat_dirs' = ItemCategoryNames \ failed
       /\ IF failed = {}
          THEN /\ stage' = "process_files"
               /\ UNCHANGED <<item_exit, exitHow>>
          ELSE ItemExit(1, "fatal")
  /\ UNCHANGED <<foVars, tableVars, srcFs, dstFs, listing, task, info, idx, mpc,
                 mtmp, category, dest_path, file_counters, error_count,
                 skip_count, overwrite_count, result, srcInit, dstInit,
                 errEvents, skipEvents, moveEvents, categories, source_kind,
                 dest_root, srcDirs, destRootInit, conflictErr>>

\* ---- the get_file_info futures (worker threads of process_files)

\* number of futures a pool thread is executing
ItemRunning == Cardinality({i \in DOMAIN task : task[i].st = "store"})

\* A pool thread runs get_file_info(listing[i]).  Without an I/O error the
\* future completes with the FileInfo.  With one (os.stat or the checksum read
\* raises OSError) the except branch starts `self.error_count += 1`, which is a
\* load, an add and a store: the thread has loaded error_count here.
Item_GetFileInfo(i) ==
  /\ stage = "process_files"
  /\ task[i].st = "queued"
  /\ \A j \in 1..(i - 1) : task[j].st # "queued"
  /\ ItemRunning < ItemMaxWorkers
  /\ \E ok \in BOOLEAN :
       \* os.path.isfile is False, without an error, for a subdirectory
       /\ ~ok => listing[i] \in DOMAIN srcFs
       /\ IF ok
          THEN /\ task' = [task EXCEPT ![i].st = "done"]
               /\ info' = [info EXCEPT ![i] = get_file_info(listing[i])]
               /\ errEvents' = errEvents
          ELSE /\ task' = [task EXCEPT ![i] = [st |-> "store", tmp |-> error_count]]
               /\ info' = info
               /\ errEvents' = errEvents + 1
  /\ UNCHANGED <<foVars, tableVars, itemSetup, conflictErr, srcFs, dstFs,
                 listing, idx, mpc, mtmp, category, dest_path, file_counters,
                 error_count, skip_count, overwrite_count, result, srcInit,
                 dstInit, skipEvents, moveEvents>>

\* the store of the thread's `self.error_count += 1`, then `return None`
Item_GetFileInfoStore(i) ==
  /\ task[i].st = "store"
  /\ error_count' = task[i].tmp + 1
  /\ task' = [task EXCEPT ![i].st = "done"]
  /\ info' = [info EXCEPT ![i] = NoFileInfo]
  /\ UNCHANGED <<foVars, tableVars, itemSetup, conflictErr, srcFs, dstFs,
                 listing, idx, mpc, mtmp, category, dest_path, file_counters,
                 skip_count, overwrite_count, result, srcInit, dstInit,
                 errEvents, skipEvents, moveEvents>>

\* ---- the main thread: process_files' loop and move_file

\* move_file has returned for future idx: the loop goes to the next future
ItemReturn(how) ==
  /\ result' = [result EXCEPT ![idx] = how]
  /\ idx' = idx + 1
  /\ mpc' = "await"

\* future.result(), categorize_file and the first two lines of move_file
Item_FutureResult ==
  /\ stage = "process_files"
  /\ mpc = "await"
  /\ idx <= Len(listing)
  /\ task[idx].st = "done"
  /\ IF info[idx].some
     THEN /\ category' = categorize_file(info[idx].name)
          /\ dest_path' = <<categorize_file(info[idx].name), info[idx].name>>
          /\ mpc' = "conflict"
          /\ UNCHANGED <<result, idx>>
     ELSE /\ ItemReturn("noinfo")
          /\ UNCHANGED <<category, dest_path>>
  /\ UNCHANGED <<foVars, tableVars, itemSetup, conflictErr, srcFs, dstFs,
                 listing, task, info, mtmp, file_counters, error_count,
                 skip_count, overwrite_count, srcInit, dstInit, errEvents,
                 skipEvents, moveEvents>>

\* handle_file_conflict's duplicate test, on what its get_file_info call
\* returned (dest_file_info) and the source's FileInfo
IsDuplicate(dest_file_info, file_info) ==
  /\ dest_file_info.some
  /\ file_info.checksum # NoChecksum
  /\ dest_file_info.checksum # NoChecksum
  /\ file_info.checksum = dest_file_info.checksum

\* handle_file_conflict's rename loop: the first counter >= 1 whose name does
\* not exist in the directory of dest_path
FirstFreeCounter(dir, name) ==
  Min({n \in 1..(Cardinality(DOMAIN dstFs) + 1) :
         <<dir, RenameCandidate(name, n)>> \notin DOMAIN dstFs})

\* resolution == 'rename': file_info.name = new_name; return True.
\* move_file's dest_path local is not assigned again.
ItemRename ==
  /\ info' = [info EXCEPT ![idx].name =
                RenameCandidate(info[idx].name,
                                FirstFreeCounter(dest_path[1], info[idx].name))]
  /\ mpc' = "copy"
  /\ UNCHANGED <<result, idx>>

\* handle_file_conflict.  The compared "destination" info is
\* self.get_file_info(os.path.basename(dest_path)), which get_file_info joins
\* to source_path.  That call can itself hit an I/O error: it then starts
\* `self.error_count += 1` (load here) and returns None.
Item_HandleFileConflict ==
  /\ mpc = "conflict"
  /\ IF dest_path \notin DOMAIN dstFs
     THEN /\ mpc' = "copy"
          /\ UNCHANGED <<info, result, idx, skip_count, skipEvents, mtmp,
                         errEvents, conflictErr>>
     ELSE \E ok \in BOOLEAN :
            IF ok
            THEN /\ IF IsDuplicate(get_file_info(dest_path[2]), info[idx])
                    THEN /\ skip_count' = skip_count + 1
                         /\ skipEvents' = skipEvents + 1
                         /\ ItemReturn("skipped")
                         /\ info' = info
                    ELSE /\ ItemRename
                         /\ UNCHANGED <<skip_count, skipEvents>>
                 /\ UNCHANGED <<mtmp, errEvents, conflictErr>>
            ELSE /\ mtmp' = error_count
                 /\ errEvents' = errEvents + 1
                 /\ conflictErr' = conflictErr \cup {idx}
                 /\ mpc' = "conflictStore"
                 /\ UNCHANGED <<info, result, idx, skip_count, skipEvents>>
  /\ UNCHANGED <<foVars, tableVars, itemSetup, srcFs, dstFs, listing, task,
                 category, dest_path, file_counters, error_count,
                 overwrite_count, srcInit, dstInit, moveEvents>>

\* the store of that `self.error_count += 1`; dest_file_info is None, so
\* handle_file_conflict goes on to the rename resolution
Item_ConflictStore ==
  /\ mpc = "conflictStore"
  /\ error_count' = mtmp + 1
  /\ ItemRename
  /\ UNCHANGED <<foVars, tableVars, itemSetup, conflictErr, srcFs, dstFs,
                 listing, task, mtmp, category, dest_path, file_counters,
                 skip_count, overwrite_count, srcInit, dstInit, errEvents,
                 skipEvents, moveEvents>>

\* what shutil.copy2 can leave at the destination path and whether it raised:
\* complete copy; failure before the destination is opened; failure midway
\* (the destination was opened for writing and holds part of the bytes);
\* failure in copystat after the bytes were written
CopyOutcomes == {"ok", "early", "mid", "late"}

\* one outcome of shutil.copy2(source_content -> path) on directory fs
CopyResult(fs, path, source_content, outcome) ==
  CASE outcome = "early" -> fs
    [] outcome = "mid"   -> WithFile(fs, path, Truncated)
    [] OTHER             -> WithFile(fs, path, source_content)

\* a mutant of AfterCopy: os.remove runs although copy2 raised
AfterCopyIgnoringFailure(outcome) == "remove"

\* move_file's try block: the statement after shutil.copy2 is os.remove only
\* when copy2 returned; an exception goes to the except branch
AfterCopy(outcome) == IF outcome = "ok" THEN "remove" ELSE "except"

\* shutil.copy2(file_info.path, dest_path)
Item_Copy ==
  /\ mpc = "copy"
  /\ \E outcome \in CopyOutcomes :
       /\ dstFs' = CopyResult(dstFs, dest_path, srcFs[info[idx].path], outcome)
       /\ mpc' = AfterCopy(outcome)
       /\ errEvents' = IF outcome = "ok" THEN errEvents ELSE errEvents + 1
  /\ UNCHANGED <<foVars, tableVars, itemSetup, conflictErr, srcFs, listing,
                 task, info, idx, mtmp, category, dest_path, file_counters,
                 error_count, skip_count, overwrite_count, result, srcInit,
                 dstInit, skipEvents, moveEvents>>

\* os.remove(file_info.path)
Item_Remove ==
  /\ mpc = "remove"
  /\ \E ok \in BOOLEAN :
       IF ok
       THEN /\ srcFs' = Without(srcFs, info[idx].path)
            /\ mpc' = "utime"
            /\ errEvents' = errEvents
       ELSE /\ srcFs' = srcFs
            /\ mpc' = "except"
            /\ errEvents' = errEvents + 1
  /\ UNCHANGED <<foVars, tableVars, itemSetup, conflictErr, dstFs, listing,
                 task, info, idx, mtmp, category, dest_path, file_counters,
                 error_count, skip_count, overwrite_count, result, srcInit,
                 dstInit, skipEvents, moveEvents>>

\* os.utime(dest_path, ...)
Item_Utime ==
  /\ mpc = "utime"
  /\ \E ok \in BOOLEAN :
       /\ mpc' = IF ok THEN "count" ELSE "except"
       /\ errEvents' = IF ok THEN errEvents ELSE errEvents + 1
  /\ UNCHANGED <<foVars, tableVars, itemSetup, conflictErr, srcFs, dstFs,
                 listing, task, info, idx, mtmp, category, dest_path,
                 file_counters, error_count, skip_count, overwrite_count,
                 result, srcInit, dstInit, skipEvents, moveEvents>>

\* self.file_counters[category] += 1; return True
Item_Count ==
  /\ mpc = "count"
  /\ file_counters' = [file_counters EXCEPT ![category] = @ + 1]
  /\ moveEvents' = [moveEvents EXCEPT ![category] = @ + 1]
  /\ ItemReturn("moved")
  /\ UNCHANGED <<foVars, tableVars, itemSetup, conflictErr, srcFs, dstFs,
                 listing, task, info, mtmp, category, dest_path, error_count,
                 skip_count, overwrite_count, srcInit, dstInit, errEvents,
                 skipEvents>>

\* except Exception: the load of `self.error_count += 1`
Item_Except ==
  /\ mpc = "except"
  /\ mtmp' = error_count
  /\ mpc' = "exceptStore"
  /\ UNCHANGED <<foVars, tableVars, itemSetup, conflictErr, srcFs, dstFs,
                 listing, task, info, idx, category, dest_path, file_counters,
                 error_count, skip_count, overwrite_count, result, srcInit,
                 dstInit, errEvents, skipEvents, moveEvents>>

\* the store of `self.error_count += 1`; return False
Item_ExceptStore ==
  /\ mpc = "exceptStore"
  /\ error_count' = mtmp + 1
  /\ ItemReturn("failed")
  /\ UNCHANGED <<foVars, tableVars, itemSetup, conflictErr, srcFs, dstFs,
                 listing, task, info, mtmp, category, dest_path, file_counters,
                 skip_count, overwrite_count, srcInit, dstInit, errEvents,
                 skipEvents, moveEvents>>

\* process_files has consumed every future and left the executor
ItemDone == mpc = "await" /\ idx = Len(listing) + 1

\* a mutant of ExitCode: main ends without looking at error_count
ExitCodeAlwaysZero(errors) == 0

\* the end of main after generate_report: sys.exit(2) if error_count > 0
ExitCode(errors) == IF errors > 0 THEN 2 ELSE 0

\* process_files has returned: generate_report and the end of main
Item_Exit ==
  /\ stage = "process_files"
  /\ ItemDone
  /\ ItemExit(ExitCode(error_count), "completed")
  /\ UNCHANGED <<foVars, tableVars, srcFs, dstFs, listing, task, info, idx, mpc,
                 mtmp, category, dest_path, file_counters, error_count,
                 skip_count, overwrite_count, result, srcInit, dstInit,
                 errEvents, skipEvents, moveEvents, categories, source_kind,
                 dest_root, cat_dirs, srcDirs, destRootInit, conflictErr>>

ItemNext ==
  \/ Item_Construct
  \/ Item_ValidatePaths
  \/ Item_PrepareDestination
  \/ Item_Exit
  \/ \E i \in DOMAIN task : Item_GetFileInfo(i)
  \/ \E i \in DOMAIN task : Item_GetFileInfoStore(i)
  \/ Item_FutureResult
  \/ Item_HandleFileConflict
  \/ Item_ConflictStore
  \/ Item_Copy
  \/ Item_Remove
  \/ Item_Utime
  \/ Item_Count
  \/ Item_Except
  \/ Item_ExceptStore

\* ---- claims about item_organizer

\* the destination path move_file computed for the file of future i
ItemDestOf(i) == <<categorize_file(listing[i]), listing[i]>>

\* the file of future i met an existing destination file when the run started
ItemCollides(i) == ItemDestOf(i) \in DOMAIN dstInit

\* C1: whenever move_file ends in its failure branch (error_count incremented,
\* returns False), the source file still exists at its source path with its
\* original content.
C1_FailedMoveKeepsSource ==
  \A i \in DOMAIN result :
    result[i] = "failed" =>
      /\ listing[i] \in DOMAIN srcFs
      /\ srcFs[listing[i]] = srcInit[listing[i]]

\* C2: when the destination holds a file with the source's name but different
\* content, a completed move_file has placed the source under the name chosen
\* by handle_file_conflict ({stem}_1{ext} when that is free) and the existing
\* destination file keeps its original content.  (Stated for runs without any
\* I/O error, where the claim already fails.)
C2_RenameKeepsExisting ==
  \A i \in DOMAIN result :
    (/\ errEvents = 0
     /\ result[i] = "moved"
     /\ ItemCollides(i)
     /\ dstInit[ItemDestOf(i)] # srcInit[listing[i]])
    => /\ <<ItemDestOf(i)[1], info[i].name>> \in DOMAIN dstFs
       /\ dstFs[<<ItemDestOf(i)[1], info[i].name>>] = srcInit[listing[i]]
       /\ (<<ItemDestOf(i)[1], RenameCandidate(listing[i], 1)>> \notin DOMAIN dstInit
             => info[i].name = RenameCandidate(listing[i], 1))
       /\ dstFs[ItemDestOf(i)] = dstInit[ItemDestOf(i)]

\* C4: for a source file of any size whose destination already holds a file
\* of the same name and identical content, move_file returns False as a skip:
\* the source is not deleted, the destination is unchanged, the category
\* counter is not incremented and skip_count counts the file.  (Stated for
\* runs without any I/O error, where the claim already fails.)
C4_IdenticalIsSkipped ==
  \A i \in DOMAIN result :
    (/\ errEvents = 0
     /\ result[i] # "none"
     /\ ItemCollides(i)
     /\ dstInit[ItemDestOf(i)] = srcInit[listing[i]])
    => /\ result[i] = "skipped"
       /\ listing[i] \in DOMAIN srcFs
       /\ srcFs[listing[i]] = srcInit[listing[i]]
       /\ dstFs = dstInit
       /\ file_counters[ItemDestOf(i)[1]] = 0
       /\ skip_count = 1

\* C5: a colliding source file is skipped as a duplicate only if the
\* fingerprint of the existing file at the destination path equals the
\* fingerprint of the source file.
C5_SkipOnlyIfDestinationEqual ==
  \A i \in DOMAIN result :
    result[i] = "skipped" =>
      /\ ItemDestOf(i) \in DOMAIN dstFs
      /\ Md5(dstFs[ItemDestOf(i)]) = Md5(srcInit[listing[i]])

\* C6: removal of the source never precedes completion of the copy: in every
\* reachable state a file that is absent from its source path has a complete
\* copy with identical content at its destination path.
C6_AbsentSourceHasCompleteCopy ==
  \A i \in DOMAIN listing :
    (listing[i] \in DOMAIN srcInit /\ listing[i] \notin DOMAIN srcFs) =>
      /\ ItemDestOf(i) \in DOMAIN dstFs
      /\ dstFs[ItemDestOf(i)] = srcInit[listing[i]]

\* C6 witness: a source file is gone and its move_file call ended in the
\* failure branch, while another file's copy was cut short
C6_Witness ==
  /\ \E i \in DOMAIN result : result[i] = "failed" /\ listing[i] \notin DOMAIN srcFs
  /\ \E p \in DOMAIN dstFs : dstFs[p] = Truncated

\* C7: no counter update is lost: when process_files ends, error_count equals
\* the number of error events, and skip_count and the per-category counters
\* equal the number of skip and move events.
C7_NoLostUpdate ==
  ItemDone =>
    /\ error_count = errEvents
    /\ skip_count = skipEvents
    /\ file_counters = moveEvents

\* ======================================================================
\*   File Organizer/file_organize.py
\* ======================================================================


\* number of command-line runs of the organizer on the same directory
MaxRuns == 2

\* self.extensions as set by __init__, in dict order
FOExtensions == <<
  [category |-> "IMAGES",      exts |-> {".jpg", ".jpeg", ".png", ".gif", ".bmp", ".tiff", ".webp"}],
  [category |-> "VIDEOS",      exts |-> {".mp4", ".mkv", ".avi", ".mov", ".wmv", ".flv", ".webm"}],
  [category |-> "DOCUMENTS",   exts |-> {".pdf", ".doc", ".docx", ".odt", ".txt", ".rtf", ".xls", ".xlsx", ".ppt", ".pptx"}],
  [category |-> "MUSIC",       exts |-> {".mp3", ".wav", ".flac", ".aac", ".ogg", ".wma"}],
  [category |-> "ARCHIVES",    exts |-> {".zip", ".rar", ".7z", ".tar", ".gz", ".bz2"}],
  [category |-> "DATA",        exts |-> {".csv", ".json", ".xml", ".sql", ".db", ".sqlite"}],
  [category |-> "CODE",        exts |-> {".py", ".js", ".html", ".css", ".java", ".c", ".cpp", ".h", ".sh", ".php"}],
  [category |-> "EXECUTABLES", exts |-> {".exe", ".msi", ".dmg", ".pkg", ".deb", ".rpm", ".apk"}] >>

\* the names of the FileCategory members
FileCategoryNames == {FOExtensions[i].category : i \in 1..Len(FOExtensions)}
                       \cup {"UNKNOWN"}

\* str.upper() on the category names the model's config files use
Upper(cat) ==
  CASE cat = "documents" -> "DOCUMENTS"
    [] cat = "images"    -> "IMAGES"
    [] cat = "ebooks"    -> "EBOOKS"
    [] OTHER -> cat

\* self.extensions[enum_category] = set(exts) on a table in dict order: an
\* existing key keeps its place, a new key goes to the end
SetExtensions(table, cat, exts) ==
  IF \E j \in 1..Len(table) : table[j].category = cat
  THEN [j \in 1..Len(table) |->
          IF table[j].category = cat THEN [table[j] EXCEPT !.exts = exts]
          ELSE table[j]]
  ELSE Append(table, [category |-> cat, exts |-> exts])

\* _load_config's loop over config['extensions'].items() from entry i on.
\* has_attr: the object has its `extensions` attribute when the loop runs.
\* An unknown category is a KeyError (warning, next entry); the assignment
\* without the attribute is an AttributeError, which ends the loop in the
\* outer `except Exception`.
RECURSIVE LoadConfigLoop(_, _, _, _)
LoadConfigLoop(has_attr, table, config, i) ==
  IF i > Len(config) THEN table
  ELSE IF Upper(config[i].category) \notin FileCategoryNames
  THEN LoadConfigLoop(has_attr, table, config, i + 1)
  ELSE IF ~has_attr THEN table
  ELSE LoadConfigLoop(has_attr,
                      SetExtensions(table, Upper(config[i].category), config[i].exts),
                      config, i + 1)

\* FileOrganizer._load_config as __init__ calls it (line 79): self.extensions
\* is assigned only at line 82
_load_config(config) == LoadConfigLoop(FALSE, <<>>, config, 1)

\* self.extensions at the end of __init__: _load_config has run, then line 82
\* assigns the default table
InitExtensions(config) ==
  LET loaded == _load_config(config)
  IN  FOExtensions

\* the for loop of _get_file_category from the i-th entry of the table on
RECURSIVE GetCategoryLoop(_, _, _)
GetCategoryLoop(table, ext, i) ==
  IF i > Len(table) THEN "UNKNOWN"
  ELSE IF ext \in table[i].exts THEN table[i].category
  ELSE GetCategoryLoop(table, ext, i + 1)

\* FileOrganizer._get_file_category: file_path.suffix.lower() looked up in
\* self.extensions
_get_file_category(name) == GetCategoryLoop(extensions, Lower(name.ext), 1)

\* category.name.title()
Title(cat) ==
  CASE cat = "IMAGES"      -> "Images"
    [] cat = "VIDEOS"      -> "Videos"
    [] cat = "DOCUMENTS"   -> "Documents"
    [] cat = "MUSIC"       -> "Music"
    [] cat = "ARCHIVES"    -> "Archives"
    [] cat = "DATA"        -> "Data"
    [] cat = "CODE"        -> "Code"
    [] cat = "EXECUTABLES" -> "Executables"
    [] OTHER                    -> "Unknown"

\* FileOrganizer._get_target_folder joined with source.name: target_path
TargetPath(name) == <<Title(_get_file_category(name)), name>>

\* a mutant of Sha256: the digest does not depend on the bytes
Sha256OfNothing(content) == <<"sha256">>

\* FileOrganizer._calculate_hash: a function of the file's bytes alone
Sha256(content) == <<"sha256", content.data, content.size>>

\* Path(): the destination of a FileOperation that was never assigned
NoPath == <<>>

\* FileOperation(source=source, destination=Path(), action="")
NewOperation(source) ==
  [source |-> source, destination |-> NoPath, action |-> "", success |-> FALSE,
   error |-> ""]

\* OrganizerStats()
NewStats ==
  [total_files |-> 0, processed_files |-> 0, moved_files |-> 0,
   skipped_files |-> 0, failed_files |-> 0]

\* ---- the inputs of a run

FOSrcNames == {MkName("a", ".txt"), RenameCandidate(MkName("a", ".txt"), 1),
               MkName("b", ".JPG")}

FOSubPaths == {<<"Documents", MkName("a", ".txt")>>,
               <<"Documents", RenameCandidate(MkName("a", ".txt"), 1)>>}

\* entries of config['extensions']: overrides of known categories and an
\* unknown category name
FOConfigEntries == {[category |-> "documents", exts |-> {".md"}],
                    [category |-> "images", exts |-> {".txt", ".jpg"}],
                    [category |-> "ebooks", exts |-> {".epub"}]}

\* the config files a FileOrganizer is built with (<<>>: no file, or a file
\* without entries)
FOConfigs == DistinctSeqs(FOConfigEntries, MaxTable)

\* the contents a file of base_dir can have: two files of different length
FOContents == {[data |-> 1, size |-> z] : z \in Sizes}

\* the content of the files that are in the category folders beforehand
FOSubContents == {[data |-> 1, size |-> ChecksumThreshold]}

\* number of regular files in base_dir when the model starts
MaxFiles == 2

FOInit ==
  /\ baseFiles \in {f \in PartialFns(FOSrcNames \cup {HiddenName}, FOContents) :
                      /\ Cardinality(DOMAIN f) \in 1..MaxFiles
                      /\ HiddenName \in DOMAIN f =>
                            f[HiddenName].size = ChecksumThreshold}
  /\ subFiles \in PartialFns(FOSubPaths, FOSubContents)
  /\ folders = {p[1] : p \in DOMAIN subFiles}
  /\ phase = "idle"
  /\ runs = 0
  /\ dry_run = FALSE
  /\ parallel = FALSE
  /\ files_to_process = <<>>
  /\ ftask = <<>>
  /\ fidx = 1
  /\ stats = NewStats
  /\ operations = <<>>
  /\ raised = <<>>
  /\ startFs = <<baseFiles, folders, subFiles>>
  /\ prevOps = <<>>
  /\ prevDry = FALSE
  /\ extensions = <<>>
  /\ exit_status = -1
  /\ queuedAtInterrupt = {}

\* ---- organize: enumeration and dispatch

\* organize's filter on base_dir.iterdir(): f.is_file() (the category folders
\* are directories) and not f.name.startswith('.')
IsCandidate(f) == ~StartsWithDot(f)

\* main() builds a FileOrganizer (fresh stats and operations) and calls
\* organize(dry_run, parallel): lines 244-251, files_to_process in the order
\* iterdir returns the regular files.  A further command-line run is modelled
\* after a dry run (rehearsal, then again): the tree it starts from is one of
\* the initial trees.
FO_Organize ==
  /\ \/ phase = "idle"
     \/ phase = "returned" /\ dry_run /\ runs < MaxRuns
  /\ \E config \in FOConfigs : extensions' = InitExtensions(config)
  /\ \E d \in BOOLEAN, p \in BOOLEAN,
        order \in Orderings({f \in DOMAIN baseFiles : IsCandidate(f)}) :
       /\ dry_run' = d
       /\ parallel' = p
       /\ files_to_process' = order
       /\ ftask' = [i \in 1..Len(order) |->
                      [pc |-> "queued", target_path |-> NoPath,
                       resolution |-> "", op |-> NewOperation(order[i])]]
       /\ raised' = [i \in 1..Len(order) |-> FALSE]
       /\ stats' = [NewStats EXCEPT !.total_files = Len(order)]
  /\ phase' = "running"
  /\ runs' = runs + 1
  /\ fidx' = 1
  /\ operations' = <<>>
  /\ startFs' = <<baseFiles, folders, subFiles>>
  /\ prevOps' = operations
  /\ prevDry' = (phase = "returned" /\ dry_run)
  /\ exit_status' = -1
  /\ queuedAtInterrupt' = {}
  /\ UNCHANGED <<itemVars, tableVars, baseFiles, folders, subFiles>>

\* number of _move_file calls a pool thread is executing
FORunning == Cardinality({i \in DOMAIN ftask : ftask[i].pc \in {"resolve", "move"}})

\* When _move_file(files_to_process[i]) may begin: in parallel mode the pool
\* takes the submitted calls in order while a thread is free; in serial mode
\* the loop calls it for the file it has reached.
FOMayStart(i) ==
  /\ phase = "running" \/ (phase = "interrupted" /\ parallel)
  /\ ftask[i].pc = "queued"
  /\ IF parallel
     THEN /\ \A j \in 1..(i - 1) : ftask[j].pc # "queued"
          /\ FORunning < MAX_WORKERS
     ELSE i = fidx

\* a mutant of Mutates: the dry_run flag is not consulted
MutatesAlways(dry) == TRUE

\* `if not dry_run:` guarding target_folder.mkdir and shutil.move
Mutates(dry) == ~dry

\* lines 227-228, reached by every path that goes on to the move:
\* op.destination = target_path; op.action = "Moved" (whatever the conflict
\* branch had stored in op.action)
ReadyToMove(op, target, resolved_action) ==
  [op EXCEPT !.destination = target, !.action = "Moved"]

\* _move_file, lines 187-200 and, without a conflict, 227-230: category,
\* target path, mkdir of the folder (live run only; it can raise), existence
\* check of the target path
FO_MoveFileStart(i) ==
  /\ FOMayStart(i)
  /\ LET source == files_to_process[i]
         target == TargetPath(source)
     IN \E mkdir_ok \in BOOLEAN :
          /\ ~mkdir_ok => Mutates(dry_run)
          /\ IF ~mkdir_ok
             THEN /\ ftask' = [ftask EXCEPT ![i].pc = "done",
                                            ![i].op.error = "mkdir failed"]
                  /\ raised' = [raised EXCEPT ![i] = TRUE]
                  /\ folders' = folders
             ELSE /\ folders' = IF Mutates(dry_run) THEN folders \cup {target[1]}
                                ELSE folders
                  /\ raised' = raised
                  /\ ftask' =
                       IF target \in DOMAIN subFiles
                       THEN IF dry_run
                            THEN [ftask EXCEPT ![i].pc = "done",
                                               ![i].op.destination = target,
                                               ![i].op.action = "Would resolve conflict"]
                            ELSE [ftask EXCEPT ![i].pc = "resolve",
                                               ![i].target_path = target]
                       ELSE [ftask EXCEPT
                               ![i].pc = IF Mutates(dry_run) THEN "move" ELSE "done",
                               ![i].target_path = target,
                               ![i].op = ReadyToMove(@, target, "")]
  /\ UNCHANGED <<itemVars, tableVars, extensions, exit_status,
                 queuedAtInterrupt, baseFiles, subFiles, phase, runs, dry_run,
                 parallel, files_to_process, fidx, stats, operations, startFs,
                 prevOps, prevDry>>

\* a mutant of FOFirstFreeCounter: the counter is not advanced past taken names
FOCounterNotAdvanced(folder, name) == 1

\* the rename loop of _move_file: the first counter >= 1 whose name does not
\* exist in the target folder
FOFirstFreeCounter(folder, name) ==
  Min({n \in 1..(Cardinality(DOMAIN subFiles) + 1) :
         <<folder, RenameCandidate(name, n)>> \notin DOMAIN subFiles})

\* the answers _resolve_conflict can return from input()
ConflictResolution == {"RENAME", "OVERWRITE", "SKIP"}

\* _move_file, lines 202-228: the conflict branch of a live run
FO_ResolveConflict(i) ==
  /\ phase \in {"running", "interrupted"}
  /\ ftask[i].pc = "resolve"
  /\ LET source == files_to_process[i]
         target == ftask[i].target_path
     IN \E resolution \in ConflictResolution, hash_ok \in BOOLEAN :
          /\ ~hash_ok => resolution = "OVERWRITE"
          /\ CASE resolution = "RENAME" ->
                    LET new_target ==
                          <<target[1],
                            RenameCandidate(source, FOFirstFreeCounter(target[1], source))>>
                    IN /\ ftask' = [ftask EXCEPT
                                      ![i].pc = "move",
                                      ![i].resolution = resolution,
                                      ![i].target_path = new_target,
                                      ![i].op = ReadyToMove(@, new_target, "Renamed")]
                       /\ raised' = raised
               [] resolution = "OVERWRITE" /\ ~hash_ok ->
                    /\ ftask' = [ftask EXCEPT ![i].pc = "done",
                                              ![i].resolution = resolution,
                                              ![i].op.error = "hash failed"]
                    /\ raised' = [raised EXCEPT ![i] = TRUE]
               [] resolution = "OVERWRITE" /\ hash_ok ->
                    /\ ftask' =
                         IF Sha256(baseFiles[source]) = Sha256(subFiles[target])
                         THEN [ftask EXCEPT ![i].pc = "done",
                                            ![i].resolution = resolution,
                                            ![i].op.action = "Skipped (identical)",
                                            ![i].op.destination = target]
                         ELSE [ftask EXCEPT ![i].pc = "move",
                                            ![i].resolution = resolution,
                                            ![i].op = ReadyToMove(@, target, "Overwritten")]
                    /\ raised' = raised
               [] OTHER ->
                    /\ ftask' = [ftask EXCEPT ![i].pc = "done",
                                              ![i].resolution = resolution,
                                              ![i].op.action = "Skipped",
                                              ![i].op.destination = target]
                    /\ raised' = raised
  /\ UNCHANGED <<itemVars, tableVars, extensions, exit_status,
                 queuedAtInterrupt, baseFiles, folders, subFiles, phase, runs,
                 dry_run, parallel, files_to_process, fidx, stats, operations,
                 startFs, prevOps, prevDry>>

\* _move_file, lines 230-235: shutil.move(source, target_path) replaces
\* whatever file is at target_path; when it raises, nothing has moved
FO_ShutilMove(i) ==
  /\ phase \in {"running", "interrupted"}
  /\ ftask[i].pc = "move"
  /\ LET source == files_to_process[i]
         target == ftask[i].target_path
     IN \E ok \in BOOLEAN :
          IF ok /\ source \in DOMAIN baseFiles
          THEN /\ subFiles' = WithFile(subFiles, target, baseFiles[source])
               /\ baseFiles' = Without(baseFiles, source)
               /\ ftask' = [ftask EXCEPT ![i].pc = "done", ![i].op.success = TRUE]
               /\ raised' = raised
          ELSE /\ ftask' = [ftask EXCEPT ![i].pc = "done",
                                         ![i].op.error = "move failed"]
               /\ raised' = [raised EXCEPT ![i] = TRUE]
               /\ UNCHANGED <<baseFiles, subFiles>>
  /\ UNCHANGED <<itemVars, tableVars, extensions, exit_status,
                 queuedAtInterrupt, folders, phase, runs, dry_run, parallel,
                 files_to_process, fidx, stats, operations, startFs, prevOps,
                 prevDry>>

\* Python's `word in op.action` for the action strings _move_file stores
ActionHas(action, word) ==
  CASE word = "Skipped"     -> action \in {"Skipped", "Skipped (identical)"}
    [] word = "Moved"       -> action = "Moved"
    [] word = "Overwritten" -> action = "Overwritten"
    [] word = "Renamed"     -> action = "Renamed"
    [] OTHER                -> FALSE

\* a mutant of _update_stats: the action is tested before the error
UpdateStatsActionFirst(st, op) ==
  LET counted == [st EXCEPT !.processed_files = @ + 1]
  IN  IF ActionHas(op.action, "Skipped")
      THEN [counted EXCEPT !.skipped_files = @ + 1]
      ELSE IF \/ ActionHas(op.action, "Moved")
              \/ ActionHas(op.action, "Overwritten")
              \/ ActionHas(op.action, "Renamed")
      THEN [counted EXCEPT !.moved_files = @ + 1]
      ELSE IF op.error # ""
      THEN [counted EXCEPT !.failed_files = @ + 1]
      ELSE counted

\* FileOrganizer._update_stats
_update_stats(st, op) ==
  LET counted == [st EXCEPT !.processed_files = @ + 1]
  IN  IF op.error # ""
      THEN [counted EXCEPT !.failed_files = @ + 1]
      ELSE IF ActionHas(op.action, "Skipped")
      THEN [counted EXCEPT !.skipped_files = @ + 1]
      ELSE IF \/ ActionHas(op.action, "Moved")
              \/ ActionHas(op.action, "Overwritten")
              \/ ActionHas(op.action, "Renamed")
      THEN [counted EXCEPT !.moved_files = @ + 1]
      ELSE counted

\* organize, lines 260-263 and 265-268: the loop takes the next operation
\* (future.result() or the serial call's return), updates the statistics and
\* appends it
FO_Collect ==
  /\ phase = "running"
  /\ fidx <= Len(files_to_process)
  /\ ftask[fidx].pc = "done"
  /\ stats' = _update_stats(stats, ftask[fidx].op)
  /\ operations' = Append(operations, ftask[fidx].op)
  /\ fidx' = fidx + 1
  /\ UNCHANGED <<itemVars, tableVars, extensions, exit_status,
                 queuedAtInterrupt, baseFiles, folders, subFiles, phase, runs,
                 dry_run, parallel, files_to_process, ftask, raised, startFs,
                 prevOps, prevDry>>

\* organize, lines 272-274: the loop is over and organize returns; main prints
\* the report and ends without a sys.exit, whatever the statistics say
FO_Return ==
  /\ phase = "running"
  /\ fidx = Len(files_to_process) + 1
  /\ phase' = "returned"
  /\ exit_status' = 0
  /\ UNCHANGED <<itemVars, tableVars, extensions, queuedAtInterrupt, baseFiles,
                 folders, subFiles, runs, dry_run, parallel, files_to_process,
                 ftask, fidx, stats, operations, raised, startFs, prevOps,
                 prevDry>>

\* KeyboardInterrupt is raised in the thread that runs organize.
\* parallel: that thread is in the `with ThreadPoolExecutor` block; the
\* exception leaves the block through the executor's __exit__, which is
\* shutdown(wait=True) without cancelling: the submitted calls go on.
\* serial: between two _move_file calls the exception leaves the loop; inside
\* a _move_file call it is discarded by that call's `finally: return op` and
\* the loop goes on with the operation as it stands.  The interrupt is
\* modelled in the first command-line run.
FO_KeyboardInterrupt ==
  /\ phase = "running"
  /\ runs = 1
  /\ fidx <= Len(files_to_process)
  /\ IF parallel \/ FORunning = 0
     THEN /\ phase' = "interrupted"
          /\ queuedAtInterrupt' = {i \in DOMAIN ftask : ftask[i].pc = "queued"}
          /\ ftask' = ftask
     ELSE /\ ftask' = [ftask EXCEPT ![fidx].pc = "done"]
          /\ UNCHANGED <<phase, queuedAtInterrupt>>
  /\ UNCHANGED <<itemVars, tableVars, extensions, exit_status, baseFiles,
                 folders, subFiles, runs, dry_run, parallel, files_to_process,
                 fidx, stats, operations, raised, startFs, prevOps, prevDry>>

\* the executor has shut down (parallel) or the loop was left (serial):
\* organize re-raises KeyboardInterrupt and main calls sys.exit(1)
FO_Abort ==
  /\ phase = "interrupted"
  /\ FORunning = 0
  /\ parallel => \A i \in DOMAIN ftask : ftask[i].pc = "done"
  /\ phase' = "aborted"
  /\ exit_status' = 1
  /\ UNCHANGED <<itemVars, tableVars, extensions, queuedAtInterrupt, baseFiles,
                 folders, subFiles, runs, dry_run, parallel, files_to_process,
                 ftask, fidx, stats, operations, raised, startFs, prevOps,
                 prevDry>>

FONext ==
  \/ FO_Organize
  \/ \E i \in DOMAIN ftask : FO_MoveFileStart(i)
  \/ \E i \in DOMAIN ftask : FO_ResolveConflict(i)
  \/ \E i \in DOMAIN ftask : FO_ShutilMove(i)
  \/ FO_Collect
  \/ FO_Return
  \/ FO_KeyboardInterrupt
  \/ FO_Abort

\* ---- the two programs are separate processes: each specification runs one
\* and leaves the other's state as constructed

ItemParked ==
  /\ srcFs = <<>>
  /\ dstFs = <<>>
  /\ listing = <<>>
  /\ task = <<>>
  /\ info = <<>>
  /\ idx = 1
  /\ mpc = "await"
  /\ mtmp = 0
  /\ category = "general"
  /\ dest_path = <<"general", MkName("", "")>>
  /\ file_counters = [c \in ItemCategoryNames |-> 0]
  /\ error_count = 0
  /\ skip_count = 0
  /\ overwrite_count = 0
  /\ result = <<>>
  /\ srcInit = <<>>
  /\ dstInit = <<>>
  /\ errEvents = 0
  /\ skipEvents = 0
  /\ moveEvents = [c \in ItemCategoryNames |-> 0]
  /\ categories = <<>>
  /\ stage = "main"
  /\ source_kind = "missing"
  /\ dest_root = "absent"
  /\ cat_dirs = {}
  /\ srcDirs = {}
  /\ item_exit = -1
  /\ exitHow = "none"
  /\ destRootInit = "absent"
  /\ conflictErr = {}

FOParked ==
  /\ baseFiles = <<>>
  /\ folders = {}
  /\ subFiles = <<>>
  /\ phase = "idle"
  /\ runs = 0
  /\ dry_run = FALSE
  /\ parallel = FALSE
  /\ files_to_process = <<>>
  /\ ftask = <<>>
  /\ fidx = 1
  /\ stats = NewStats
  /\ operations = <<>>
  /\ raised = <<>>
  /\ startFs = <<baseFiles, folders, subFiles>>
  /\ prevOps = <<>>
  /\ prevDry = FALSE
  /\ extensions = <<>>
  /\ exit_status = -1
  /\ queuedAtInterrupt = {}

TablesParked ==
  /\ item_config = <<>>
  /\ fo_config = <<>>
  /\ query = MkName("", "")
  /\ answer = <<>>

\* ---- the two constructors and categorizers on their own

\* entries of a --config table of item_organizer: overlapping lists, a list
\* with the empty extension and one with an upper-case extension
ItemConfigEntries == {[category |-> "docs", extensions |-> {".txt"}],
                      [category |-> "text", extensions |-> {".txt", ".md"}],
                      [category |-> "misc", extensions |-> {"", ".JPG"}]}

ItemConfigs == DistinctSeqs(ItemConfigEntries, MaxTable)

\* the file names that are categorized
TableQueryNames == {MkName("a", ".txt"), MkName("b", ".JPG"), MkName("c", ".md"),
                    MkName("d", ".TXT"), MkName("e", ".epub"), MkName("f", ".xyz"),
                    MkName("g", ""), HiddenName}

\* item_organizer: FileOrganizer(source, destination, config), line 76
Tables_ItemConstruct ==
  /\ \E config \in ItemConfigs :
       /\ categories' = ItemCategories(config)
       /\ item_config' = config
  /\ query' = MkName("", "")
  /\ answer' = <<>>
  /\ UNCHANGED <<foVars, fo_config, srcFs, dstFs, listing, task, info, idx, mpc,
                 mtmp, category, dest_path, file_counters, error_count,
                 skip_count, overwrite_count, result, srcInit, dstInit,
                 errEvents, skipEvents, moveEvents, stage, source_kind,
                 dest_root, cat_dirs, srcDirs, item_exit, exitHow,
                 destRootInit, conflictErr>>

\* file_organize: FileOrganizer(base_dir, config_file), lines 73-91
Tables_FOConstruct ==
  /\ \E config \in FOConfigs :
       /\ extensions' = InitExtensions(config)
       /\ fo_config' = config
  /\ query' = MkName("", "")
  /\ answer' = <<>>
  /\ UNCHANGED <<itemVars, item_config, baseFiles, folders, subFiles, phase,
                 runs, dry_run, parallel, files_to_process, ftask, fidx, stats,
                 operations, raised, startFs, prevOps, prevDry, exit_status,
                 queuedAtInterrupt>>

\* categorize_file and _get_file_category called on one file name; neither
\* assigns to anything
Tables_Categorize ==
  /\ categories # <<>>
  /\ extensions # <<>>
  /\ \E name \in TableQueryNames :
       /\ query' = name
       /\ answer' = [item |-> categorize_file(name), fo |-> _get_file_category(name)]
  /\ UNCHANGED <<itemVars, foVars, item_config, fo_config>>

TablesNext ==
  \/ Tables_ItemConstruct
  \/ Tables_FOConstruct
  \/ Tables_Categorize

TablesStart == ItemParked /\ FOParked /\ TablesParked

ItemStart == ItemInit /\ FOParked /\ TablesParked

FOStart == FOInit /\ ItemParked /\ TablesParked

\* item_organizer.py: one command-line run, from main's start to its exit
SpecItem == ItemStart /\ [][ItemNext]_vars

\* file_organize.py: up to MaxRuns command-line runs on one directory
SpecFO == FOStart /\ [][FONext]_vars

\* both programs: construction with a config, then categorizer calls
SpecTables == TablesStart /\ [][TablesNext]_vars

\* ---- claims about file_organize

\* C3: with parallel=True no two source files are moved to the same
\* destination path, so no file is overwritten by another worker's move.
\* (Stated for moves that the user did not answer with OVERWRITE, where the
\* claim already fails.)
C3_NoTwoMovesToSamePath ==
  parallel =>
    \A i, j \in DOMAIN ftask :
      (/\ i # j
       /\ ftask[i].op.success
       /\ ftask[j].op.success
       /\ ftask[i].resolution # "OVERWRITE"
       /\ ftask[j].resolution # "OVERWRITE")
      => ftask[i].op.destination # ftask[j].op.destination

\* C8: during and after organize(dry_run=True), serial or parallel, the
\* filesystem is as it was when organize began: no folder created, no file
\* moved, renamed, overwritten or deleted.
C8_DryRunLeavesFilesystem ==
  (phase # "idle" /\ dry_run) => <<baseFiles, folders, subFiles>> = startFs

\* C8 witness: a parallel dry run has returned after processing two files,
\* one of them with a destination conflict and one into a folder that does
\* not exist
C8_Witness ==
  /\ phase = "returned"
  /\ dry_run
  /\ parallel
  /\ \E i, j \in DOMAIN operations :
       /\ operations[i].action = "Would resolve conflict"
       /\ operations[j].action = "Moved"
       /\ operations[j].destination[1] \notin folders

\* C9: for every file of an unmodified tree, the outcome a dry run recorded
\* has the same action and the same destination as the outcome the following
\* live run records for that file.
C9_DryRunPredictsLiveRun ==
  (phase = "returned" /\ prevDry /\ ~dry_run) =>
    \A i \in DOMAIN operations, k \in DOMAIN prevOps :
      operations[i].source = prevOps[k].source =>
        /\ operations[i].action = prevOps[k].action
        /\ operations[i].destination = prevOps[k].destination

\* C10: when organize has returned, however many moves failed, every
\* enumerated file has exactly one recorded FileOperation, the operation of
\* a file whose move raised carries the error with success False, and
\* failed_files equals the number of files whose move raised.
C10_FailuresDoNotAbort ==
  phase = "returned" =>
    /\ Len(operations) = Len(files_to_process)
    /\ \A i \in DOMAIN operations :
         /\ operations[i].source = files_to_process[i]
         /\ raised[i] => (operations[i].error # "" /\ ~operations[i].success)
    /\ stats.failed_files = Cardinality({i \in DOMAIN raised : raised[i]})

\* C10 witness: a run has returned in which one file's move raised and
\* another file was moved
C10_Witness ==
  /\ phase = "returned"
  /\ \E i, j \in DOMAIN operations :
       /\ raised[i]
       /\ operations[i].action = "Moved"
       /\ operations[j].success

\* ---- further claims about item_organizer

\* C11: when the destination path exists and handle_file_conflict cannot
\* obtain the file information (I/O error), the file ends as a skip with an
\* error: it keeps its name and stays at its source path, nothing is copied
\* (the main thread never reaches the copy for it), the existing destination
\* file is unchanged and, once the call has returned, the error is counted.
C11_ConflictErrorIsSkip ==
  \A i \in conflictErr :
    /\ info[i].name = listing[i]
    /\ i = idx => mpc \in {"conflictStore", "await"}
    /\ listing[i] \in DOMAIN srcFs /\ srcFs[listing[i]] = srcInit[listing[i]]
    /\ dstFs[ItemDestOf(i)] = dstInit[ItemDestOf(i)]
    /\ result[i] # "none" => (result[i] # "moved" /\ error_count > 0)

\* C13: when source_path is a valid directory and the destination root does
\* not exist but can be created, main creates the destination root and goes
\* on to process the files; it ends fatally only when the destination (root
\* or category directories) cannot be created.
C13_MissingDestinationIsCreated ==
  (stage = "exited" /\ source_kind = "dir" /\ destRootInit = "absent") =>
    /\ dest_root = "exists"
    /\ exitHow = "completed" \/ cat_dirs # ItemCategoryNames

\* C14: the orchestrators process exactly the regular files directly in the
\* source directory whose names do not begin with '.': a subdirectory or a
\* hidden file gets no FileInfo and no move_file call in item_organizer and
\* stays where it is, and is not in file_organize's files_to_process.
C14_OnlyVisibleFilesProcessed ==
  /\ \A i \in DOMAIN listing :
       (listing[i] \in srcDirs \/ StartsWithDot(listing[i])) =>
         /\ ~info[i].some
         /\ result[i] \in {"none", "noinfo"}
         /\ listing[i] \in DOMAIN srcInit =>
              (listing[i] \in DOMAIN srcFs /\ srcFs[listing[i]] = srcInit[listing[i]])
  /\ \A i \in DOMAIN files_to_process : ~StartsWithDot(files_to_process[i])

\* C19: main's exit code tells the three end states apart: 0 when the run
\* completed with error_count = 0, 2 when it completed with error_count > 0,
\* and 1 when source_path is missing, not a directory or the destination
\* itself, in which case no file has moved and no category directory was
\* created.
C19_ExitCodes ==
  stage = "exited" =>
    /\ exitHow = "completed" => item_exit = (IF error_count = 0 THEN 0 ELSE 2)
    /\ exitHow = "invalid" => item_exit = 1
    /\ source_kind # "dir" =>
         /\ item_exit = 1
         /\ srcFs = srcInit
         /\ dstFs = dstInit
         /\ cat_dirs = {p[1] : p \in DOMAIN dstInit}

\* C19 witness: a run that completed with errors has exited with code 2 after
\* moving a file
C19_Witness ==
  /\ stage = "exited"
  /\ exitHow = "completed"
  /\ error_count > 0
  /\ item_exit = 2
  /\ \E i \in DOMAIN result : result[i] = "moved"

\* the category directory the default table gives the model's source names
C21_CategoryOf(name) ==
  CASE name.ext \in {".txt", ".TXT"} -> "documents"
    [] name.ext \in {".jpg", ".JPG"} -> "images"
    [] OTHER -> "general"

\* sum of the counters of the categories in S
RECURSIVE SumCounters(_, _)
SumCounters(counters, S) ==
  IF S = {} THEN 0
  ELSE LET c == CHOOSE x \in S : TRUE
       IN  counters[c] + SumCounters(counters, S \ {c})

\* C21: with the default table, a source directory of n regular files, no
\* destination name collision and no I/O failure: when process_files has
\* ended every file is at <destination>/<category>/<name> with its content,
\* the source directory holds none of them, the per-category counters sum to
\* n, and error_count, skip_count and overwrite_count are 0.
C21_HappyPathMovesEveryFile ==
  (/\ stage \in {"process_files", "exited"}
   /\ exitHow \in {"none", "completed"}
   /\ ItemDone
   /\ errEvents = 0
   /\ \A f \in DOMAIN srcInit : <<C21_CategoryOf(f), f>> \notin DOMAIN dstInit)
  => /\ \A f \in DOMAIN srcInit :
          /\ <<C21_CategoryOf(f), f>> \in DOMAIN dstFs
          /\ dstFs[<<C21_CategoryOf(f), f>>] = srcInit[f]
     /\ srcFs = <<>>
     /\ \A p \in DOMAIN dstInit : dstFs[p] = dstInit[p]
     /\ SumCounters(file_counters, ItemCategoryNames) = Cardinality(DOMAIN srcInit)
     /\ error_count = 0
     /\ skip_count = 0
     /\ overwrite_count = 0

\* C21 witness: a.txt and b.JPG were moved to documents/ and images/ without
\* any failure and main has exited with code 0
C21_Witness ==
  /\ stage = "exited"
  /\ item_exit = 0
  /\ errEvents = 0
  /\ Cardinality(DOMAIN srcInit) = 2
  /\ srcFs = <<>>
  /\ \E f, g \in DOMAIN srcInit :
       /\ <<"documents", f>> \in DOMAIN dstFs \ DOMAIN dstInit
       /\ <<"images", g>> \in DOMAIN dstFs \ DOMAIN dstInit

\* ---- further claims about file_organize

\* C12: with parallel=True, once KeyboardInterrupt has been raised in the
\* thread that dispatches, a _move_file call that had not started by then
\* never starts.
C12_NoStartAfterInterrupt ==
  (parallel /\ phase \in {"interrupted", "aborted"}) =>
    \A i \in queuedAtInterrupt : ftask[i].pc = "queued"

\* C16: on a live run the recorded action tells how the file was relocated:
\* "Renamed" after a rename resolution, "Overwritten" after an overwrite of
\* different content, "Moved" only when the target path was free; the
\* recorded destination is the path the file now is at.
C16_ActionTellsHowRelocated ==
  \A i \in DOMAIN ftask :
    (~dry_run /\ ftask[i].op.success) =>
      /\ ftask[i].resolution = "RENAME" => ftask[i].op.action = "Renamed"
      /\ ftask[i].resolution = "OVERWRITE" => ftask[i].op.action = "Overwritten"
      /\ ftask[i].op.action = "Moved" => ftask[i].resolution = ""
      /\ ftask[i].op.destination = ftask[i].target_path

\* the counter at the end of a renamed file's name
RenameCounterOf(name) == name.suf[Len(name.suf)]

\* C17: in serial mode a conflict resolved by RENAME moves the file to
\* {stem}_{n}{suffix} in the target folder, n being the smallest integer >= 1
\* whose name does not exist when the decision is made: at the moment of the
\* move every smaller counter's name exists and the chosen one does not, so
\* the move replaces no existing file.
C17_SerialRenameFirstFree ==
  ~parallel =>
    \A i \in DOMAIN ftask :
      (ftask[i].resolution = "RENAME" /\ ftask[i].pc \in {"move", "done"}) =>
        LET source == files_to_process[i]
            target == ftask[i].target_path
            n == RenameCounterOf(target[2])
        IN /\ target[1] = TargetPath(source)[1]
           /\ Len(target[2].suf) = Len(source.suf) + 1
           /\ n >= 1
           /\ target[2] = RenameCandidate(source, n)
           /\ \A m \in 1..(n - 1) :
                <<target[1], RenameCandidate(source, m)>> \in DOMAIN subFiles
           /\ ftask[i].pc = "move" => target \notin DOMAIN subFiles
           /\ ftask[i].op.success =>
                /\ ftask[i].op.destination = target
                /\ target \notin DOMAIN startFs[3]

\* C17 witness: a serial live run has moved a.txt to Documents/a_2.txt,
\* a.txt and a_1.txt being there already and left as they were
C17_Witness ==
  /\ ~parallel
  /\ \E i \in DOMAIN ftask :
       /\ ftask[i].resolution = "RENAME"
       /\ ftask[i].op.success
       /\ RenameCounterOf(ftask[i].target_path[2]) = 2
       /\ ftask[i].target_path \in DOMAIN subFiles
       /\ \A p \in DOMAIN startFs[3] : subFiles[p] = startFs[3][p]

\* C18: the command line ends with a nonzero exit code whenever organize
\* completed with failed_files > 0, and with 0 only when no file failed.
C18_FailuresGiveNonzeroExit ==
  phase = "returned" => (exit_status = 0 <=> stats.failed_files = 0)

\* ---- claims about the constructors and categorizers

\* C15: after construction with a config file, every known category named in
\* config['extensions'] maps to the configured extensions, an unknown name
\* is ignored, and the categories not named keep their defaults.
C15_ConfigOverrideEffective ==
  extensions # <<>> =>
    \A k \in 1..Len(FOExtensions) :
      /\ extensions[k].category = FOExtensions[k].category
      /\ extensions[k].exts =
           IF \E j \in 1..Len(fo_config) :
                Upper(fo_config[j].category) = FOExtensions[k].category
           THEN LET j == CHOOSE j \in 1..Len(fo_config) :
                           Upper(fo_config[j].category) = FOExtensions[k].category
                IN  fo_config[j].exts
           ELSE FOExtensions[k].exts

\* C20: both categorizers return the first category, in table order, whose
\* extension set contains the lowercased extension of the file name, and
\* the default category ('general' / UNKNOWN) when no set contains it.
C20_FirstMatchingCategory ==
  answer # <<>> =>
    LET ext == Lower(query.ext)
        itemHits == {i \in 1..Len(categories) : ext \in categories[i].extensions}
        foHits == {i \in 1..Len(extensions) : ext \in extensions[i].exts}
    IN /\ answer.item = IF itemHits = {} THEN "general"
                        ELSE categories[Min(itemHits)].category
       /\ answer.fo = IF foHits = {} THEN "UNKNOWN"
                      ELSE extensions[Min(foHits)].category

\* C20 witness: a file whose extension is in two entries of the item table
\* got the first one's category from categorize_file and DOCUMENTS from
\* _get_file_category
C20_Witness ==
  /\ answer # <<>>
  /\ Cardinality({i \in 1..Len(categories) :
                    Lower(query.ext) \in categories[i].extensions}) = 2
  /\ answer.item = categories[1].category
  /\ answer.fo = "DOCUMENTS"

\* ---- claims about file_organize's statistics and overwrite resolution

\* the operations recorded as skipped because source and target are identical
IdenticalSkips == {i \in DOMAIN operations : operations[i].action = "Skipped (identical)"}

\* C22: with the OVERWRITE resolution, equal SHA-256 digests leave source and
\* target as they are, the operation is 'Skipped (identical)' with success
\* False and no error and is counted in skipped_files only; with different
\* digests a move that succeeds replaces the target's content by the source's
\* and removes the source.  The target is only overwritten when its content
\* differed.
C22_OverwriteByHash ==
  /\ \A i \in DOMAIN ftask :
       (ftask[i].resolution = "OVERWRITE" /\ ftask[i].pc = "done") =>
         LET source == files_to_process[i]
             target == TargetPath(source)
             op == ftask[i].op
             mine == \A j \in DOMAIN ftask \ {i} : ftask[j].target_path # target
         IN /\ op.action = "Skipped (identical)" =>
                 /\ source \in DOMAIN baseFiles
                 /\ baseFiles[source] = startFs[1][source]
                 /\ target \in DOMAIN subFiles
                 /\ subFiles[target] = baseFiles[source]
                 /\ (mine /\ target \in DOMAIN startFs[3]) =>
                      subFiles[target] = startFs[3][target]
                 /\ ~op.success
                 /\ op.error = ""
                 /\ op.destination = target
                 /\ _update_stats(NewStats, op) = [NewStats EXCEPT !.processed_files = 1,
                                                                   !.skipped_files = 1]
            /\ op.success =>
                 /\ source \notin DOMAIN baseFiles
                 /\ mine => subFiles[target] = startFs[1][source]
                 /\ (mine /\ target \in DOMAIN startFs[3]) =>
                      startFs[3][target] # startFs[1][source]
            /\ (~raised[i] /\ mine /\ target \in DOMAIN startFs[3]
                  /\ startFs[3][target] = startFs[1][source]) =>
                 op.action = "Skipped (identical)"
  /\ phase = "returned" =>
       /\ stats.skipped_files >= Cardinality(IdenticalSkips)
       /\ IdenticalSkips = DOMAIN operations =>
            (stats.moved_files = 0 /\ stats.failed_files = 0)

\* C22 witness: a run has returned in which one file was skipped as identical
\* to its target and another replaced a target of different content, both
\* after an OVERWRITE answer
C22_Witness ==
  /\ phase = "returned"
  /\ \E i, j \in DOMAIN ftask :
       /\ ftask[i].resolution = "OVERWRITE"
       /\ ftask[j].resolution = "OVERWRITE"
       /\ ftask[i].op.action = "Skipped (identical)"
       /\ ftask[j].op.success
       /\ subFiles[ftask[j].target_path] # startFs[3][ftask[j].target_path]
  /\ stats.skipped_files = 1
  /\ stats.moved_files = 1

\* C23: after organize has returned, every enumerated file has exactly one
\* recorded FileOperation, processed_files = total_files = len(operations),
\* and every operation is counted in exactly one outcome counter:
\* processed_files = moved_files + skipped_files + failed_files.
C23_EveryOperationCountedOnce ==
  phase = "returned" =>
    /\ Len(operations) = Len(files_to_process)
    /\ \A i \in DOMAIN operations : operations[i].source = files_to_process[i]
    /\ stats.processed_files = stats.total_files
    /\ stats.total_files = Len(operations)
    /\ stats.processed_files =
         stats.moved_files + stats.skipped_files + stats.failed_files

\* C24: after organize has returned, moved_files equals the number of
\* recorded operations with success True, in a live run and in a dry run
\* (where it is 0).
C24_MovedCountsRelocatedFiles ==
  phase = "returned" =>
    /\ stats.moved_files =
         Cardinality({i \in DOMAIN operations : operations[i].success})
    /\ dry_run => stats.moved_files = 0

====
